---- MODULE Spec2Model ----
(***************************************************************************)
(* Model of package dateslice (src/dateslice.go).                          *)
(*                                                                         *)
(* A time.Time is modelled as [abs, loc]: abs is the instant in whole      *)
(* hours since 0001-01-01 00:00 UTC (the zero time.Time), loc the          *)
(* Location that presents it ("UTC", or "Local", a zone with daylight      *)
(* saving: UTC-5 in winter, UTC-4 in summer).  A string is a sequence of   *)
(* one-character strings.  Every exported function is one action; the      *)
(* reference instant time.Now() is an input of the call.                   *)
(***************************************************************************)
EXTENDS Integers, Sequences, FiniteSets

VARIABLES op, args, ret, panicked

vars == <<op, args, ret, panicked>>

-----------------------------------------------------------------------------
(* Bounds of the model *)

\* number of calendar years (from BaseYear) the anchor dates are drawn from
NumYears == 2
\* Range: the end date lies at most MaxSpan days after the begin date ...
MaxSpan == 10
\* ... and at most MaxBack days before it
MaxBack == 3

\* RangeString: the begin and end strings span at most MaxStringSpan days
MaxStringSpan == 61

\* first year of the anchor dates (the year of the leap-day test case)
BaseYear == 2016

Years == BaseYear .. (BaseYear + NumYears - 1)

-----------------------------------------------------------------------------
(* package time: the calendar *)

IsLeap(y) == y % 4 = 0 /\ (y % 100 # 0 \/ y % 400 = 0)

\* days from 0001-01-01 to January 1st of year y
DaysBeforeYear(y) ==
    365 * (y - 1) + ((y - 1) \div 4) - ((y - 1) \div 100) + ((y - 1) \div 400)

DaysBeforeTable == <<0, 31, 59, 90, 120, 151, 181, 212, 243, 273, 304, 334, 365>>

\* days of year y before the first of month m (1..13; 13 is the year's end)
DaysBeforeMonth(y, m) ==
    DaysBeforeTable[m] + (IF IsLeap(y) /\ m > 2 THEN 1 ELSE 0)

DaysIn(y, m) == DaysBeforeMonth(y, m + 1) - DaysBeforeMonth(y, m)

\* the number of day d of month m (1..12) of year y; d may be out of range
DaysFrom(y, m, d) == DaysBeforeYear(y) + DaysBeforeMonth(y, m) + d - 1

\* time.Date's date part: month and day may be out of range and are normalised
DateToDays(y, m, d) ==
    DaysFrom(y + ((m - 1) \div 12), ((m - 1) % 12) + 1, d)

\* a count of whole 100-year or 1-year cycles: the last day of a 400-year or
\* 4-year cycle belongs to the cycle's last century or year
Cut(n) == IF n = 4 THEN 3 ELSE n

\* the year holding day number n, and the day within it (0-based): the
\* 400-year, 100-year, 4-year and 1-year cycles are taken off in turn
Cycle1(y, r) ==
    [year |-> y + Cut(r \div 365), yday |-> r - 365 * Cut(r \div 365)]

Cycle4(y, r) == Cycle1(y + 4 * (r \div 1461), r % 1461)

Cycle100(y, r) ==
    Cycle4(y + 100 * Cut(r \div 36524), r - 36524 * Cut(r \div 36524))

YearAndDay(n) == Cycle100(1 + 400 * (n \div 146097), n % 146097)

\* the month holding the (0-based) day yday of year y
MonthOfYearDay(y, yday) ==
    CHOOSE k \in 1..12 :
        DaysBeforeMonth(y, k) <= yday /\ yday < DaysBeforeMonth(y, k + 1)

CivilIn(y, yday, m) ==
    [year |-> y, month |-> m, day |-> yday - DaysBeforeMonth(y, m) + 1,
     yday |-> yday + 1]

CivilAt(yd) == CivilIn(yd.year, yd.yday, MonthOfYearDay(yd.year, yd.yday))

\* the civil date of day number n
Civil(n) == CivilAt(YearAndDay(n))

\* 0 = Sunday .. 6 = Saturday; 0001-01-01 is a Monday
WeekdayOfDay(n) == (n + 1) % 7

-----------------------------------------------------------------------------
(* package time: Location, Time, Duration *)

Locs == {"UTC", "Local"}

\* the zero time.Time: 0001-01-01 00:00 UTC
ZeroTime == [abs |-> 0, loc |-> "UTC"]

\* "Local" moves its clocks forward on the second Sunday of March at 02:00
\* (07:00 UTC) and back on the first Sunday of November at 02:00 (06:00 UTC)
FirstSunday(y, m) ==
    1 + ((7 - WeekdayOfDay(DaysFrom(y, m, 1))) % 7)

SpringForward(y) == DaysFrom(y, 3, FirstSunday(y, 3) + 7) * 24 + 7

FallBack(y) == DaysFrom(y, 11, FirstSunday(y, 11)) * 24 + 6

\* the zone of "Local" in force at instant u of year y
LocalZone(u, y) ==
    IF u < SpringForward(y)
    THEN [offset |-> -5, start |-> FallBack(y - 1), end |-> SpringForward(y)]
    ELSE IF u < FallBack(y)
    THEN [offset |-> -4, start |-> SpringForward(y), end |-> FallBack(y)]
    ELSE [offset |-> -5, start |-> FallBack(y), end |-> SpringForward(y + 1)]

\* Location.lookup: the zone in force at instant u (UTC), its offset in hours
\* and the instants [start, end) between which it is in force
Lookup(loc, u) ==
    IF loc = "UTC"
    THEN [offset |-> 0, start |-> u, end |-> u + 1]
    ELSE LocalZone(u, YearAndDay(u \div 24).year)

\* the wall clock of t in its Location, in hours since 0001-01-01 00:00
Wall(t) == t.abs + Lookup(t.loc, t.abs).offset

\* the number of the calendar day t falls on
CalDay(t) == Wall(t) \div 24

\* Time.Hour
Hour(t) == Wall(t) % 24

\* Time.Date, Time.YearDay
CivilOf(t) == Civil(CalDay(t))

\* Time.Weekday
Weekday(t) == WeekdayOfDay(CalDay(t))

\* the offset for wall clock unix, first looked up (z) as if unix were UTC,
\* and looked up again when unix - offset lies outside that zone
OffsetFor(unix, loc, z) ==
    IF z.offset # 0 /\ (unix - z.offset < z.start \/ unix - z.offset >= z.end)
    THEN Lookup(loc, unix - z.offset).offset
    ELSE z.offset

FromWall(unix, loc) ==
    [abs |-> unix - OffsetFor(unix, loc, Lookup(loc, unix)), loc |-> loc]

\* time.Date(y, m, d, h, 0, 0, 0, loc): the fields are normalised, then the
\* wall clock is turned into an instant with the offset found for it
Date(y, m, d, h, loc) == FromWall(DateToDays(y, m, d) * 24 + h, loc)

AddCivil(c, h, loc, years, months, days) ==
    Date(c.year + years, c.month + months, c.day + days, h, loc)

\* Time.AddDate
AddDate(t, years, months, days) ==
    AddCivil(CivilOf(t), Hour(t), t.loc, years, months, days)

\* the largest Duration is 2^63-1 ns: 2562047 whole hours and a part of one
MaxDurationHours == 2562047

\* hours, saturated at the Duration limits, as whole + (a part of an hour,
\* when part)
Saturate(h) ==
    IF h > MaxDurationHours
    THEN [whole |-> MaxDurationHours, part |-> TRUE]
    ELSE IF h < 0 - MaxDurationHours
    THEN [whole |-> (0 - MaxDurationHours) - 1, part |-> TRUE]
    ELSE [whole |-> h, part |-> FALSE]

\* Time.Sub followed by Duration.Hours: the hours from u to t
SubHours(t, u) == Saturate(t.abs - u.abs)

\* int(math.Ceil(hours/24.0 + plus))
CeilDays(hours, plus) ==
    IF hours.part \/ hours.whole % 24 # 0
    THEN (hours.whole \div 24) + 1 + plus
    ELSE (hours.whole \div 24) + plus

-----------------------------------------------------------------------------
(* package time: Parse and Format with the layout "20060102" *)

Digits == <<"0", "1", "2", "3", "4", "5", "6", "7", "8", "9">>

IsDigit(c) == \E i \in 1..10 : Digits[i] = c

DigitVal(c) == (CHOOSE i \in 1..10 : Digits[i] = c) - 1

\* atoi of the digits s[from .. to]
RECURSIVE Atoi(_, _, _)
Atoi(s, from, to) ==
    IF to < from THEN 0 ELSE 10 * Atoi(s, from, to - 1) + DigitVal(s[to])

\* what time.Parse returns with an error: the zero Time
ParseError == [ok |-> FALSE, t |-> ZeroTime]

\* the parsed fields are validated: a month or day out of range is an error
ParseFields(y, m, d) ==
    IF m >= 1 /\ m <= 12 /\ d >= 1 /\ d <= DaysIn(y, m)
    THEN [ok |-> TRUE, t |-> Date(y, m, d, 0, "UTC")]
    ELSE ParseError

\* time.Parse("20060102", s): four, two and two digits and nothing else
Parse(s) ==
    IF Len(s) = 8 /\ \A i \in 1..8 : IsDigit(s[i])
    THEN ParseFields(Atoi(s, 1, 4), Atoi(s, 5, 6), Atoi(s, 7, 8))
    ELSE ParseError

\* n (0 <= n < 10^width) as width digits with leading zeros
RECURSIVE Itoa(_, _)
Itoa(n, width) ==
    IF width = 0 THEN <<>>
    ELSE Append(Itoa(n \div 10, width - 1), Digits[(n % 10) + 1])

FormatCivil(c) == Itoa(c.year, 4) \o Itoa(c.month, 2) \o Itoa(c.day, 2)

\* Time.Format("20060102")
Format(t) == FormatCivil(CivilOf(t))

\* strings.EqualFold, over ASCII
Upper ==
    <<"A", "B", "C", "D", "E", "F", "G", "H", "I", "J", "K", "L", "M",
      "N", "O", "P", "Q", "R", "S", "T", "U", "V", "W", "X", "Y", "Z">>

Lower ==
    <<"a", "b", "c", "d", "e", "f", "g", "h", "i", "j", "k", "l", "m",
      "n", "o", "p", "q", "r", "s", "t", "u", "v", "w", "x", "y", "z">>

Fold(c) ==
    IF \E i \in 1..26 : Upper[i] = c
    THEN Lower[CHOOSE i \in 1..26 : Upper[i] = c]
    ELSE c

\* a comparison that does not fold case
EqualExact(s, t) == s = t

EqualFold(s, t) ==
    Len(s) = Len(t) /\ \A i \in 1..Len(s) : Fold(s[i]) = Fold(t[i])

-----------------------------------------------------------------------------
(* package dateslice.  A function's result is [ds, panic]: the slice it     *)
(* returns, or panic = TRUE when the call ends in a run-time panic.         *)

Returns(ds) == [ds |-> ds, panic |-> FALSE]

Panics == [ds |-> <<>>, panic |-> TRUE]

\* make([]time.Time, n) with every element then set to base.AddDate(0, 0, i):
\* make panics when n is negative
Fill(base, n) ==
    IF n < 0 THEN Panics
    ELSE Returns([i \in 1..n |-> AddDate(base, 0, 0, i - 1)])

Today(now) == Returns(<<now>>)

Yesterday(now) == Returns(<<AddDate(now, 0, 0, -1)>>)

Tomorrow(now) == Returns(<<AddDate(now, 0, 0, 1)>>)

DayBefore(d) == Returns(<<AddDate(d, 0, 0, -1)>>)

\* a week reset to Monday instead of Sunday
aWeekFromMonday(baseDate) ==
    Fill(AddDate(baseDate, 0, 0, 1 - Weekday(baseDate)), 7)

\* baseDate is reset to Sunday and the week filled from there
aWeek(baseDate) ==
    Fill(AddDate(baseDate, 0, 0, 0 - Weekday(baseDate)), 7)

WeekOf(date) == aWeek(date)

ThisWeek(now) == aWeek(now)

LastWeek(now) == aWeek(AddDate(now, 0, 0, -7))

NextWeek(now) == aWeek(AddDate(now, 0, 0, 7))

\* aMonth once baseDate is the first of the month
MonthFrom(first) ==
    Fill(first, CeilDays(SubHours(AddDate(first, 0, 1, 0), first), 0))

aMonth(baseDate) ==
    MonthFrom(AddDate(baseDate, 0, 0, 0 - (CivilOf(baseDate).day - 1)))

ThisMonth(now) == aMonth(now)

LastMonth(now) == aMonth(AddDate(now, 0, -1, 0))

NextMonth(now) == aMonth(AddDate(now, 0, 1, 0))

MonthOf(date) == aMonth(date)

\* a year of a fixed 365 days
YearFrom365(first) == Fill(first, 365)

\* aYear once baseDate is the first of the year
YearFrom(first) ==
    Fill(first, CeilDays(SubHours(AddDate(first, 1, 0, 0), first), 0))

aYear(baseDate) ==
    YearFrom(AddDate(baseDate, 0, 0, 0 - (CivilOf(baseDate).yday - 1)))

ThisYear(now) == aYear(now)

LastYear(now) == aYear(AddDate(now, -1, 0, 0))

NextYear(now) == aYear(AddDate(now, 1, 0, 0))

YearOf(date) == aYear(date)

Range(beg, end) == Fill(beg, CeilDays(SubHours(end, beg), 1))

\* RangeString's second test of the begin string: four characters are a year
WidenBeginYear(begDt) ==
    IF Len(begDt) = 4 THEN begDt \o <<"0", "1", "0", "1">> ELSE begDt

\* the begin string of RangeString after its two length tests
WidenBegin(begDt) ==
    WidenBeginYear(IF Len(begDt) = 6 THEN begDt \o <<"0", "1">> ELSE begDt)

\* RangeString's second test of the end string: four characters are a year,
\* widened to the day before the first day of the next year
WidenEndYear(endDt) ==
    IF Len(endDt) = 4
    THEN Format(AddDate(AddDate(Parse(endDt \o <<"0", "1", "0", "1">>).t,
                                1, 0, 0), 0, 0, -1))
    ELSE endDt

\* an end month widened like a begin month, to its first day
WidenEndToFirst(endDt) ==
    WidenEndYear(IF Len(endDt) = 6 THEN endDt \o <<"0", "1">> ELSE endDt)

\* the end string of RangeString after its two length tests: six characters
\* are a month, widened to the day before the first day of the next month
WidenEnd(endDt) ==
    WidenEndYear(IF Len(endDt) = 6
                 THEN Format(AddDate(AddDate(Parse(endDt \o <<"0", "1">>).t,
                                             0, 1, 0), 0, 0, -1))
                 ELSE endDt)

RangeString(begDt, endDt) ==
    Range(Parse(WidenBegin(begDt)).t, Parse(WidenEnd(endDt)).t)

DateStringToSlice(dateText, now) ==
    IF EqualFold(dateText, <<"t", "o", "d", "a", "y">>) THEN Today(now)
    ELSE IF EqualFold(dateText, <<"y", "e", "s", "t", "e", "r", "d", "a", "y">>)
    THEN Yesterday(now)
    ELSE IF EqualFold(dateText, <<"t", "h", "i", "s", "w", "e", "e", "k">>)
    THEN ThisWeek(now)
    ELSE IF EqualFold(dateText, <<"l", "a", "s", "t", "w", "e", "e", "k">>)
    THEN LastWeek(now)
    ELSE IF EqualFold(dateText, <<"t", "h", "i", "s", "m", "o", "n", "t", "h">>)
    THEN ThisMonth(now)
    ELSE IF EqualFold(dateText, <<"l", "a", "s", "t", "m", "o", "n", "t", "h">>)
    THEN LastMonth(now)
    ELSE Returns(<<>>)

\* a keyword's result that the begin string does not replace
WithRangeUnlessKeyword(ds, begDt, endDt) ==
    IF ds.panic \/ Len(ds.ds) # 0 THEN ds
    ELSE IF Len(begDt) # 0
    THEN IF Len(endDt) # 0
         THEN RangeString(begDt, endDt)
         ELSE RangeString(begDt, begDt)
    ELSE ds

\* the second half of DateObjectsToSlice: a begin string replaces ds
WithRange(ds, begDt, endDt) ==
    IF ds.panic THEN ds
    ELSE IF Len(begDt) # 0
    THEN IF Len(endDt) # 0
         THEN RangeString(begDt, endDt)
         ELSE RangeString(begDt, begDt)
    ELSE ds

DateObjectsToSlice(dateString, begDt, endDt, now) ==
    WithRange(IF Len(dateString) # 0
              THEN DateStringToSlice(dateString, now)
              ELSE Returns(<<>>),
              begDt, endDt)

-----------------------------------------------------------------------------
(* The inputs of the calls *)

\* times of day (whole hours) the input instants carry
Tods == {0, 2, 5, 23}

\* the time of day of the instants in the package's tests
TestTod == 5

AllDates ==
    {<<y, m, d>> : y \in Years, m \in 1..12, d \in 1..31}

\* every calendar day of Years
ValidDates == {x \in AllDates : x[3] <= DaysIn(x[1], x[2])}

\* the first, the middle and the last days of every month
AnchorDates == {x \in ValidDates : x[3] = 1 \/ x[3] = 15 \/ x[3] >= 28}

\* the first and the last days of every month
MonthEndDates == {x \in ValidDates : x[3] = 1 \/ x[3] >= 28}

\* the first and last day of the months at the ends of the year and of the
\* months in which "Local" changes its clocks
EdgeDates ==
    {x \in ValidDates : /\ x[2] \in {1, 2, 3, 11, 12}
                        /\ x[3] \in {1, DaysIn(x[1], x[2])}}

YearDates ==
    {x \in ValidDates : <<x[2], x[3]>> \in {<<1, 1>>, <<3, 1>>, <<12, 31>>}}

\* begin dates of Range: before the leap day, the clock changes of "Local"
\* and the end of the year
RangeDates ==
    {x \in ValidDates : <<x[2], x[3]>> \in
        {<<2, 27>>, <<3, 5>>, <<11, 1>>, <<12, 28>>}}

TimesAt(dates, tods) ==
    {Date(x[1], x[2], x[3], h, l) : x \in dates, h \in tods, l \in Locs}

TimesOn(dates) == TimesAt(dates, Tods)

Str4(y) == Itoa(y, 4)

Str6(y, m) == Itoa(y, 4) \o Itoa(m, 2)

Str8(y, m, d) == Itoa(y, 4) \o Itoa(m, 2) \o Itoa(d, 2)

\* strings that time.Parse rejects once RangeString has widened them
BadStrings ==
    { <<"b", "o", "g", "u", "s">>,
      <<"2", "0", "1", "7", "0", "1", "3">>,
      <<"2", "0", "1", "7", "-", "0", "1", "-", "0", "1">>,
      <<"2", "0", "1", "7", "0", "2", "3", "0">>,
      <<"2", "0", "1", "7", "1", "3">>,
      <<"2", "0", "a", "b">> }

YearStrings == {Str4(y) : y \in Years}

MonthStrings == {Str6(y, m) : y \in Years, m \in 1..12}

DayStrings == {Str8(x[1], x[2], x[3]) : x \in EdgeDates}

\* the civil date a well-formed string of 4, 6 or 8 digits names, with the
\* missing parts set to lo (a begin string) or to the period's end (an end
\* string): read off the digits, independently of Parse and Format
FirstDayOf(s) ==
    DateToDays(Atoi(s, 1, 4),
               IF Len(s) >= 6 THEN Atoi(s, 5, 6) ELSE 1,
               IF Len(s) = 8 THEN Atoi(s, 7, 8) ELSE 1)

LastDayIn(s, y, m) ==
    DateToDays(y, m, IF Len(s) = 8 THEN Atoi(s, 7, 8) ELSE DaysIn(y, m))

LastDayOf(s) ==
    LastDayIn(s, Atoi(s, 1, 4), IF Len(s) >= 6 THEN Atoi(s, 5, 6) ELSE 12)

GoodStrings == YearStrings \cup MonthStrings \cup DayStrings

\* the (begin, end) pairs given to RangeString: every string with itself,
\* well-formed pairs whose periods span at most MaxStringSpan days forwards
\* or MaxBack days backwards, whole years, and pairs with a string that
\* Parse rejects
StringPairs ==
    {<<s, s>> : s \in GoodStrings \cup BadStrings}
    \cup {p \in GoodStrings \X GoodStrings :
            /\ LastDayOf(p[2]) - FirstDayOf(p[1]) <= MaxStringSpan
            /\ FirstDayOf(p[1]) - LastDayOf(p[2]) <= MaxBack}
    \cup (YearStrings \X YearStrings)
    \cup (BadStrings \X BadStrings)
    \cup {<<<<"b", "o", "g", "u", "s">>, Str4(BaseYear)>>}
    \cup {<<s, b>> : s \in YearStrings \cup {Str6(BaseYear, 2)}, b \in BadStrings}

\* the keywords of DateStringToSlice, each in two mixes of cases
TodayWords ==
    { <<"t", "o", "d", "a", "y">>, <<"T", "o", "d", "a", "y">> }

YesterdayWords ==
    { <<"y", "e", "s", "t", "e", "r", "d", "a", "y">>,
      <<"Y", "E", "S", "T", "E", "R", "D", "A", "Y">> }

ThisWeekWords ==
    { <<"t", "h", "i", "s", "w", "e", "e", "k">>,
      <<"T", "h", "i", "s", "W", "e", "e", "k">> }

LastWeekWords ==
    { <<"l", "a", "s", "t", "w", "e", "e", "k">>,
      <<"L", "A", "S", "T", "W", "E", "E", "K">> }

ThisMonthWords ==
    { <<"t", "h", "i", "s", "m", "o", "n", "t", "h">>,
      <<"T", "H", "I", "S", "m", "o", "n", "t", "h">> }

LastMonthWords ==
    { <<"l", "a", "s", "t", "m", "o", "n", "t", "h">>,
      <<"L", "a", "s", "t", "M", "o", "n", "t", "h">> }

Keywords ==
    TodayWords \cup YesterdayWords \cup ThisWeekWords \cup LastWeekWords
        \cup ThisMonthWords \cup LastMonthWords

\* strings that are no keyword
NonKeywords ==
    { <<>>,
      <<"b", "o", "g", "u", "s">>,
      <<"t", "o", "m", "o", "r", "r", "o", "w">>,
      <<"n", "e", "x", "t", "w", "e", "e", "k">>,
      <<"n", "e", "x", "t", "m", "o", "n", "t", "h">>,
      <<"t", "h", "i", "s", "y", "e", "a", "r">>,
      <<"l", "a", "s", "t", "y", "e", "a", "r">>,
      <<"t", "o", "d", "a">>,
      <<"t", "o", "d", "a", "y", " ">>,
      <<"t", "h", "i", "s", " ", "w", "e", "e", "k">> }

-----------------------------------------------------------------------------
(* The calls.  The package keeps no state of its own, so the program is    *)
(* modelled as a caller that makes one call at a time: op names the call    *)
(* whose result the caller holds ("none" between calls), args its           *)
(* arguments (now: the value time.Now() gave it), ret the slice it          *)
(* returned, panicked whether it ended in a run-time panic, after which     *)
(* the program makes no further step.                                       *)

NoArgs ==
    [now |-> ZeroTime, date |-> ZeroTime, beg |-> ZeroTime, end |-> ZeroTime,
     dateString |-> <<>>, begDt |-> <<>>, endDt |-> <<>>]

Init ==
    /\ op = "none"
    /\ args = NoArgs
    /\ ret = <<>>
    /\ panicked = FALSE

\* the caller holds no result and the program has not panicked
Idle == op = "none" /\ ~panicked

Call(name, a, r) ==
    /\ op' = name
    /\ args' = a
    /\ ret' = r.ds
    /\ panicked' = r.panic

CallToday ==
    /\ Idle
    /\ \E now \in TimesOn(EdgeDates) :
           Call("Today", [NoArgs EXCEPT !.now = now], Today(now))

CallYesterday ==
    /\ Idle
    /\ \E now \in TimesOn(AnchorDates) :
           Call("Yesterday", [NoArgs EXCEPT !.now = now], Yesterday(now))

CallTomorrow ==
    /\ Idle
    /\ \E now \in TimesOn(AnchorDates) :
           Call("Tomorrow", [NoArgs EXCEPT !.now = now], Tomorrow(now))

CallDayBefore ==
    /\ Idle
    /\ \E d \in TimesOn(AnchorDates) :
           Call("DayBefore", [NoArgs EXCEPT !.date = d], DayBefore(d))

CallWeekOf ==
    /\ Idle
    /\ \E d \in TimesOn(AnchorDates) :
           Call("WeekOf", [NoArgs EXCEPT !.date = d], WeekOf(d))

CallThisWeek ==
    /\ Idle
    /\ \E now \in TimesOn(EdgeDates) :
           Call("ThisWeek", [NoArgs EXCEPT !.now = now], ThisWeek(now))

CallLastWeek ==
    /\ Idle
    /\ \E now \in TimesOn(EdgeDates) :
           Call("LastWeek", [NoArgs EXCEPT !.now = now], LastWeek(now))

CallNextWeek ==
    /\ Idle
    /\ \E now \in TimesOn(EdgeDates) :
           Call("NextWeek", [NoArgs EXCEPT !.now = now], NextWeek(now))

CallMonthOf ==
    /\ Idle
    /\ \E d \in TimesOn(AnchorDates) :
           Call("MonthOf", [NoArgs EXCEPT !.date = d], MonthOf(d))

CallThisMonth ==
    /\ Idle
    /\ \E now \in TimesAt(EdgeDates, {TestTod}) :
           Call("ThisMonth", [NoArgs EXCEPT !.now = now], ThisMonth(now))

CallLastMonth ==
    /\ Idle
    /\ \E now \in TimesAt(MonthEndDates, {TestTod}) :
           Call("LastMonth", [NoArgs EXCEPT !.now = now], LastMonth(now))

CallNextMonth ==
    /\ Idle
    /\ \E now \in TimesAt(MonthEndDates, {TestTod}) :
           Call("NextMonth", [NoArgs EXCEPT !.now = now], NextMonth(now))

CallYearOf ==
    /\ Idle
    /\ \E d \in TimesOn(YearDates) :
           Call("YearOf", [NoArgs EXCEPT !.date = d], YearOf(d))

CallThisYear ==
    /\ Idle
    /\ \E now \in TimesAt(YearDates, {TestTod}) :
           Call("ThisYear", [NoArgs EXCEPT !.now = now], ThisYear(now))

CallLastYear ==
    /\ Idle
    /\ \E now \in TimesAt(YearDates, {TestTod}) :
           Call("LastYear", [NoArgs EXCEPT !.now = now], LastYear(now))

CallNextYear ==
    /\ Idle
    /\ \E now \in TimesAt(YearDates, {TestTod}) :
           Call("NextYear", [NoArgs EXCEPT !.now = now], NextYear(now))

CallRangeOf(beg, end) ==
    Call("Range", [NoArgs EXCEPT !.beg = beg, !.end = end], Range(beg, end))

CallRange ==
    /\ Idle
    /\ \E x \in RangeDates, h1 \in Tods, h2 \in Tods, l \in Locs,
          k \in (0 - MaxBack) .. MaxSpan :
           CallRangeOf(Date(x[1], x[2], x[3], h1, l),
                       Date(x[1], x[2], x[3] + k, h2, l))

CallRangeString ==
    /\ Idle
    /\ \E p \in StringPairs :
           Call("RangeString", [NoArgs EXCEPT !.begDt = p[1], !.endDt = p[2]],
                RangeString(p[1], p[2]))

CallDateStringToSlice ==
    /\ Idle
    /\ \E s \in Keywords \cup NonKeywords, now \in TimesAt(EdgeDates, {TestTod}) :
           Call("DateStringToSlice",
                [NoArgs EXCEPT !.dateString = s, !.now = now],
                DateStringToSlice(s, now))

CallDateObjectsToSlice ==
    /\ Idle
    /\ \E s \in {<<>>, <<"T", "o", "d", "a", "y">>,
                 <<"t", "h", "i", "s", "w", "e", "e", "k">>,
                 <<"b", "o", "g", "u", "s">>},
          b \in {<<>>, Str4(BaseYear), Str6(BaseYear, 2), Str8(BaseYear, 2, 28)},
          e \in {<<>>, Str4(BaseYear), Str6(BaseYear, 2), Str8(BaseYear, 3, 1),
                 Str8(BaseYear, 2, 25), <<"b", "o", "g", "u", "s">>},
          now \in TimesAt({<<BaseYear, 11, 1>>}, {TestTod}) :
           Call("DateObjectsToSlice",
                [NoArgs EXCEPT !.dateString = s, !.begDt = b, !.endDt = e,
                               !.now = now],
                DateObjectsToSlice(s, b, e, now))

\* the caller drops the result and is ready for its next call
Return ==
    /\ op # "none"
    /\ ~panicked
    /\ op' = "none"
    /\ args' = NoArgs
    /\ ret' = <<>>
    /\ panicked' = FALSE

Next ==
    \/ CallToday
    \/ CallYesterday
    \/ CallTomorrow
    \/ CallDayBefore
    \/ CallWeekOf
    \/ CallThisWeek
    \/ CallLastWeek
    \/ CallNextWeek
    \/ CallMonthOf
    \/ CallThisMonth
    \/ CallLastMonth
    \/ CallNextMonth
    \/ CallYearOf
    \/ CallThisYear
    \/ CallLastYear
    \/ CallNextYear
    \/ CallRange
    \/ CallRangeString
    \/ CallDateStringToSlice
    \/ CallDateObjectsToSlice
    \/ Return

Spec == Init /\ [][Next]_vars

-----------------------------------------------------------------------------
(* Properties.  Each is a predicate on the state the caller is left in      *)
(* after a call.                                                            *)

\* ds holds one element per calendar day, from day number first on, n in all
DaysFromTo(ds, first, n) ==
    Len(ds) = n /\ \A i \in 1..Len(ds) : CalDay(ds[i]) = first + i - 1

\* C1: for all dates begin <= end, Range(begin, end) has days_between + 1
\* elements, starts with begin, ends on end, and steps by one calendar day.
\* The code breaks this when end's time of day is later than begin's, and
\* when a day of the range has 25 hours in the dates' Location.
C1_RangeFromBeginToEnd ==
    (op = "Range" /\ args.beg.abs <= args.end.abs) =>
        /\ ~panicked
        /\ DaysFromTo(ret, CalDay(args.beg),
                      CalDay(args.end) - CalDay(args.beg) + 1)
        /\ ret[1] = args.beg
        /\ CalDay(ret[Len(ret)]) = CalDay(args.end)

Outcome == [ds |-> ret, panic |-> panicked]

\* C3: DateObjectsToSlice gives RangeString(begin, end) when begin and end
\* are non-empty, RangeString(begin, begin) when only end is empty, whatever
\* the keyword; without a begin string it gives DateStringToSlice(keyword)
\* for a non-empty keyword and the empty slice otherwise, whatever end is.
C3_Precedence ==
    op = "DateObjectsToSlice" =>
        Outcome =
            IF args.begDt # <<>>
            THEN IF args.endDt # <<>>
                 THEN RangeString(args.begDt, args.endDt)
                 ELSE RangeString(args.begDt, args.begDt)
            ELSE IF args.dateString # <<>>
                 THEN DateStringToSlice(args.dateString, args.now)
                 ELSE Returns(<<>>)

\* a keyword and a begin string without an end: the begin string wins and
\* stands for its whole period
C3_Witness ==
    /\ op = "DateObjectsToSlice"
    /\ args.dateString \in TodayWords
    /\ args.begDt = Str6(BaseYear, 2)
    /\ args.endDt = <<>>
    /\ Len(ret) = 29

\* C4: WeekOf(d) has 7 elements, on 7 consecutive calendar days from the
\* Sunday on or before d (d's day minus its weekday index), d's day among
\* them.
C4_WeekOf ==
    op = "WeekOf" =>
        /\ ~panicked
        /\ DaysFromTo(ret, CalDay(args.date) - WeekdayOfDay(CalDay(args.date)), 7)
        /\ WeekdayOfDay(CalDay(ret[1])) = 0
        /\ WeekdayOfDay(CalDay(ret[7])) = 6
        /\ CalDay(ret[1]) <= CalDay(args.date)
        /\ \E i \in 1..7 : CalDay(ret[i]) = CalDay(args.date)

\* a week that starts in the year before its anchor date
C4_Witness ==
    /\ op = "WeekOf"
    /\ Len(ret) = 7
    /\ CivilOf(args.date).month = 1
    /\ CivilOf(ret[1]).year = CivilOf(args.date).year - 1
    /\ CivilOf(ret[1]).month = 12

\* ds is exactly the days of month m of year y
IsMonth(ds, y, m) == DaysFromTo(ds, DaysFrom(y, m, 1), DaysIn(y, m))

\* C5: MonthOf(d) has as many elements as d's month has days, from the 1st
\* to the last day of d's month.  The code breaks this in the month in
\* which d's Location sets its clocks back.
C5_MonthOf ==
    op = "MonthOf" =>
        /\ ~panicked
        /\ IsMonth(ret, CivilOf(args.date).year, CivilOf(args.date).month)

\* C6: YearOf(d) has 366 elements when d's year is a leap year and 365
\* otherwise, from January 1st to December 31st of d's year.
C6_YearOf ==
    op = "YearOf" =>
        /\ ~panicked
        /\ Len(ret) = (IF IsLeap(CivilOf(args.date).year) THEN 366 ELSE 365)
        /\ DaysFromTo(ret, DaysFrom(CivilOf(args.date).year, 1, 1), Len(ret))
        /\ CivilOf(ret[1]).month = 1 /\ CivilOf(ret[1]).day = 1
        /\ CivilOf(ret[Len(ret)]).month = 12 /\ CivilOf(ret[Len(ret)]).day = 31
        /\ CivilOf(ret[Len(ret)]).year = CivilOf(args.date).year

\* the year of a date in a leap year, in the Location that changes its clocks
C6_Witness ==
    /\ op = "YearOf"
    /\ args.date.loc = "Local"
    /\ CivilOf(args.date).month = 3
    /\ IsLeap(CivilOf(args.date).year)
    /\ Len(ret) = 366

\* C7: no call of Range, RangeString or DateObjectsToSlice ends in a
\* run-time fault.  The code panics in make when the end lies two days or
\* more before the begin.
C7_NoFault ==
    op \in {"Range", "RangeString", "DateObjectsToSlice"} => ~panicked

\* C8: LastMonth() is exactly the days of the month before now's month and
\* NextMonth() exactly the days of the month after it.  The code breaks this
\* when the adjacent month has no day with now's day number.
C8_AdjacentMonth ==
    /\ op = "LastMonth" =>
           /\ ~panicked
           /\ IsMonth(ret, CivilOf(args.now).year + ((CivilOf(args.now).month - 2) \div 12),
                      ((CivilOf(args.now).month - 2) % 12) + 1)
    /\ op = "NextMonth" =>
           /\ ~panicked
           /\ IsMonth(ret, CivilOf(args.now).year + (CivilOf(args.now).month \div 12),
                      (CivilOf(args.now).month % 12) + 1)

\* the period function a string stands for, and the number of elements its
\* result has
PeriodOf(s, now) ==
    CASE s \in TodayWords -> Today(now)
      [] s \in YesterdayWords -> Yesterday(now)
      [] s \in ThisWeekWords -> ThisWeek(now)
      [] s \in LastWeekWords -> LastWeek(now)
      [] s \in ThisMonthWords -> ThisMonth(now)
      [] s \in LastMonthWords -> LastMonth(now)
      [] OTHER -> Returns(<<>>)

CountOf(s) ==
    CASE s \in TodayWords \cup YesterdayWords -> {1}
      [] s \in ThisWeekWords \cup LastWeekWords -> {7}
      [] s \in ThisMonthWords \cup LastMonthWords -> 28..31
      [] OTHER -> {0}

\* C9: DateStringToSlice gives, for a keyword in any mix of cases, the result
\* of the keyword's period function (1, 1, 7, 7 and a month's length of
\* elements), and the empty slice, without a fault, for anything else.
C9_KeywordDispatch ==
    op = "DateStringToSlice" =>
        /\ Outcome = PeriodOf(args.dateString, args.now)
        /\ ~panicked
        /\ Len(ret) \in CountOf(args.dateString)

\* a keyword in mixed case that resolves to a month
C9_Witness ==
    /\ op = "DateStringToSlice"
    /\ args.dateString = <<"L", "a", "s", "t", "M", "o", "n", "t", "h">>
    /\ Len(ret) = 29

\* C10: whatever the times of day, Range(begin, end) with begin's calendar
\* day <= end's has exactly one element per calendar day from begin's day
\* to end's day.  The code adds a day when end's time of day is the later.
C10_TimeOfDayIgnored ==
    (op = "Range" /\ CalDay(args.beg) <= CalDay(args.end)) =>
        /\ ~panicked
        /\ DaysFromTo(ret, CalDay(args.beg),
                      CalDay(args.end) - CalDay(args.beg) + 1)

====
